---- MODULE Spec2Model ----
(***************************************************************************)
(* A model of the QP solver adapter (OsqpEigenOpt), the sparse block       *)
(* inserter (setSparseBlock), the MPC rollout (calculateX) and the control *)
(* loop of the example driver of lin_mpc_eigen.                            *)
(*                                                                         *)
(* Vectors (VecNd) are sequences of integers.  Sparse matrices are records *)
(* [rows, cols, coef] with coef a function on 0-based <<row, col>> pairs;  *)
(* a coefficient of 0 is an entry that is not stored.                      *)
(***************************************************************************)
EXTENDS Integers, Sequences, FiniteSets, TLC

VARIABLES
  layout,                   \* which OsqpEigenOpt constructor built the adapter
  session,                  \* "none" | "live" | "failed" | "aborted" | "undefined"
  qp,                       \* the SparseQpProblem handed to the constructor
  n_, m_,                   \* OsqpEigenOpt::n_, m_
  b_qp_,                    \* OsqpEigenOpt::b_qp_
  lower_bound_,             \* OsqpEigenOpt::lower_bound_
  upper_bound_,             \* OsqpEigenOpt::upper_bound_
  linearConstraintsMatrix_, \* OsqpEigenOpt::linearConstraintsMatrix_
  solver_,                  \* OsqpEigen::Solver: data(), workspace, status
  feasible,                 \* value returned by the last checkFeasibility()
  lastOp,                   \* the adapter operation that ran last
  calls,                    \* number of adapter operations after construction
  arg,                      \* arguments of the last partial update
  pre,                      \* solver data just before the last operation
  hist,                     \* history: last gradient / inequality rhs supplied
  sb,                       \* state of the block-insertion harness
  ro,                       \* state of the rollout harness
  loop                      \* state of the driver's control loop

advars == <<layout, session, qp, n_, m_, b_qp_, lower_bound_, upper_bound_,
            linearConstraintsMatrix_, solver_, feasible, lastOp, calls, arg,
            pre, hist>>
vars == <<layout, session, qp, n_, m_, b_qp_, lower_bound_, upper_bound_,
          linearConstraintsMatrix_, solver_, feasible, lastOp, calls, arg,
          pre, hist, sb, ro, loop>>

(***************************************************************************)
(* Bounds of the model.                                                    *)
(***************************************************************************)
MaxVars == 2      \* largest number of optimisation variables n
MaxIeqRows == 2   \* largest number of inequality rows
MaxSlice == 3     \* longest inequality rhs handed to a partial update
MaxDim == 2       \* largest row / column count in the block-insertion harness
Horizon == 3      \* prediction horizon N of the rollout harness
MaxCalls == 2     \* adapter operations after construction

(***************************************************************************)
(* Vectors and sparse matrices.                                            *)
(***************************************************************************)
\* the constant `inf`, a stand-in larger than every finite value of the model
inf == 1000

Neg(v) == [t \in 1..Len(v) |-> -v[t]]

Ones(k) == [t \in 1..k |-> 1]

Scale(c, v) == [t \in 1..Len(v) |-> c * v[t]]

Zero(k) == [t \in 1..k |-> 0]

Cells(r, c) == (0..(r - 1)) \X (0..(c - 1))

\* SparseMat(r, c): an r x c matrix with no stored entry
SparseMat(r, c) == [rows |-> r, cols |-> c, coef |-> [p \in Cells(r, c) |-> 0]]

\* SparseMat(k, k) followed by setIdentity()
setIdentity(k) ==
  [rows |-> k, cols |-> k,
   coef |-> [p \in Cells(k, k) |-> IF p[1] = p[2] THEN 1 ELSE 0]]

\* upper_bound_.segment(start, k) = v  (start is 0-based)
AssignSegment(vec, start, k, v) ==
  [t \in 1..Len(vec) |->
     IF t - 1 >= start /\ t - 1 < start + k THEN v[t - start] ELSE vec[t]]

(***************************************************************************)
(* setSparseBlock: the block inserter.  The result is the pair of the      *)
(* thrown flag and the output matrix.  Eigen's insert() on a coordinate    *)
(* that is already stored is undefined; dup names the outcome the build    *)
(* produces there: the old entry, the new one, or both (read as their sum).*)
(***************************************************************************)
DupOutcomes == {"old", "new", "sum"}

CantFit(output_matrix, input_block, i, j) ==
  \/ input_block.rows > output_matrix.rows - i
  \/ input_block.cols > output_matrix.cols - j

InsertCoef(old, new, dup) ==
  IF old = 0 THEN new
  ELSE CASE dup = "old" -> old
         [] dup = "new" -> new
         [] OTHER -> old + new

CantFitColsOnly(output_matrix, input_block, i, j) ==
  input_block.cols > output_matrix.cols - j

setSparseBlockNoCheck(output_matrix, input_block, i, j, dup) ==
  [err |-> FALSE,
   mat |-> [output_matrix EXCEPT !.coef =
     [p \in DOMAIN output_matrix.coef |->
        IF /\ p[1] >= i /\ p[1] < i + input_block.rows
           /\ p[2] >= j /\ p[2] < j + input_block.cols
           /\ input_block.coef[<<p[1] - i, p[2] - j>>] # 0
        THEN InsertCoef(output_matrix.coef[p],
                        input_block.coef[<<p[1] - i, p[2] - j>>], dup)
        ELSE output_matrix.coef[p]]]]

setSparseBlockRowsUnchecked(output_matrix, input_block, i, j, dup) ==
  IF CantFitColsOnly(output_matrix, input_block, i, j)
  THEN [err |-> TRUE, mat |-> output_matrix]
  ELSE setSparseBlockNoCheck(output_matrix, input_block, i, j, dup)

setSparseBlock(output_matrix, input_block, i, j, dup) ==
  IF CantFit(output_matrix, input_block, i, j)
  THEN [err |-> TRUE, mat |-> output_matrix]
  ELSE setSparseBlockNoCheck(output_matrix, input_block, i, j, dup)

(***************************************************************************)
(* The QP problems handed to the adapter.  A problem is fixed by its       *)
(* number of variables n, its equality and inequality row counts, one      *)
(* optional defect: a dimension that disagrees, or variable bounds that    *)
(* contradict each other (lower > upper).  The two variable-bound vectors  *)
(* of a problem have one length.                                           *)
(***************************************************************************)
Defects == {"none", "bndLong", "eqCols", "ieqCols", "beqLen", "bieqLen",
            "contra"}

MkProblem(n, ne, ni, defect) ==
  LET contra == defect = "contra"
      nb == IF defect = "bndLong" THEN n + 1 ELSE n
      eqc == IF defect = "eqCols" THEN n + 1 ELSE n
      iqc == IF defect = "ieqCols" THEN n + 1 ELSE n
      nbe == IF defect = "beqLen" THEN ne + 1 ELSE ne
      nbi == IF defect = "bieqLen" THEN ni + 1 ELSE ni
  IN [A_qp |-> [rows |-> n, cols |-> n,
                coef |-> [p \in Cells(n, n) |-> IF p[1] = p[2] THEN 2 ELSE 0]],
      b_qp |-> [t \in 1..n |-> t],
      A_eq |-> [rows |-> ne, cols |-> eqc,
                coef |-> [p \in Cells(ne, eqc) |-> 2 + p[1] + p[2]]],
      b_eq |-> [t \in 1..nbe |-> 5 + t],
      A_ieq |-> [rows |-> ni, cols |-> iqc,
                 coef |-> [p \in Cells(ni, iqc) |->
                             IF (p[1] + p[2]) % 2 = 1 THEN 0
                             ELSE 3 + p[1] + 2 * p[2]]],
      b_ieq |-> [t \in 1..nbi |-> 7 + t],
      lower_bound |-> [t \in 1..nb |-> IF contra THEN 3 + t ELSE -t],
      upper_bound |-> [t \in 1..nb |-> t]]

Problems ==
  { MkProblem(n, ne, ni, d) :
      n \in 1..MaxVars, ne \in 0..1, ni \in 0..MaxIeqRows, d \in Defects }

\* dimensions agree: one bound pair per variable, one rhs entry per row
Consistent(P) ==
  /\ Len(P.lower_bound) = P.A_qp.rows
  /\ Len(P.upper_bound) = P.A_qp.rows
  /\ P.A_eq.cols = P.A_qp.rows
  /\ P.A_ieq.cols = P.A_qp.rows
  /\ Len(P.b_eq) = P.A_eq.rows
  /\ Len(P.b_ieq) = P.A_ieq.rows

\* the arguments of a partial update, built from a seed v
UpdateSeeds == {1, 2}

NewGradient(n, v) == [t \in 1..n |-> 10 * v + t]

NewIeqRhs(k, v) == [t \in 1..k |-> 20 * v + t]

(***************************************************************************)
(* The solver session solver_: the data handed to data(), and the          *)
(* workspace (its starting point x, the last solution and status).         *)
(***************************************************************************)
Statuses == {"SOLVED", "PRIMAL_INFEASIBLE", "PRIMAL_INFEASIBLE_INACCURATE",
             "TIME_LIMIT_REACHED"}

Solutions(n) == { [t \in 1..n |-> v] : v \in {0, 3} }

NoSolver ==
  [nVars |-> 0, nCons |-> 0, hessian |-> SparseMat(0, 0), gradient |-> <<>>,
   A |-> SparseMat(0, 0), lower |-> <<>>, upper |-> <<>>,
   init |-> FALSE, x |-> <<>>, sol |-> <<>>, status |-> "UNSOLVED"]

setNumberOfVariables(s, n) == [s EXCEPT !.nVars = n]

setNumberOfConstraints(s, m) == [s EXCEPT !.nCons = m]

setHessianMatrix(s, H) == [s EXCEPT !.hessian = H]

setGradient(s, g) == [s EXCEPT !.gradient = g]

setLinearConstraintsMatrix(s, A) == [s EXCEPT !.A = A]

setBounds(s, l, u) == [s EXCEPT !.lower = l, !.upper = u]

\* clearSolver(): the workspace is released, its iterates with it
clearSolver(s) == [s EXCEPT !.init = FALSE, !.x = <<>>]

\* initSolver(): a new workspace is set up from data(), cold-started at zero
initSolver(s) == [s EXCEPT !.init = TRUE, !.x = Zero(s.nVars)]

\* the data the solver solves: what a rebuild from scratch must reproduce
Data(s) == [hessian |-> s.hessian, gradient |-> s.gradient, A |-> s.A,
            lower |-> s.lower, upper |-> s.upper]

(***************************************************************************)
(* Box+affine layout: OsqpEigenOpt(qp_problem, time_limit, verbosity) and  *)
(* its initializeSolver.  The result carries thrown = TRUE when one of the *)
(* three setSparseBlock calls throws.                                      *)
(***************************************************************************)
StackBlocks(lcm, P) ==
  LET identMatrix_n == setIdentity(Len(P.upper_bound))
      s1 == setSparseBlock(lcm, identMatrix_n, 0, 0, "new")
      s2 == setSparseBlock(s1.mat, P.A_eq, identMatrix_n.rows, 0, "new")
      s3 == setSparseBlock(s2.mat, P.A_ieq,
                           identMatrix_n.rows + P.A_eq.rows, 0, "new")
  IN [err |-> s1.err \/ s2.err \/ s3.err, mat |-> s3.mat]

LowerBoundSwapped(P) ==
  P.lower_bound \o Scale(-inf, Ones(Len(P.b_ieq))) \o Neg(P.b_eq)

LowerBound(P) ==
  P.lower_bound \o Neg(P.b_eq) \o Scale(-inf, Ones(Len(P.b_ieq)))

UpperBound(P) ==
  P.upper_bound \o Neg(P.b_eq) \o Neg(P.b_ieq)

initializeSolver(P) ==
  LET n == P.A_qp.rows
      m == Len(P.upper_bound) + P.A_eq.rows + P.A_ieq.rows
      st == StackBlocks(SparseMat(m, n), P)
      lower_bound == LowerBound(P)
      upper_bound == UpperBound(P)
      d1 == setNumberOfConstraints(setNumberOfVariables(NoSolver, n), m)
      d2 == setGradient(setHessianMatrix(d1, P.A_qp), P.b_qp)
      d3 == setLinearConstraintsMatrix(d2, st.mat)
      d4 == setBounds(d3, lower_bound, upper_bound)
  IN [thrown |-> st.err, n |-> n, m |-> m, b_qp |-> P.b_qp,
      lcm |-> st.mat, lower |-> lower_bound, upper |-> upper_bound,
      solver |-> initSolver(clearSolver(d4))]

(***************************************************************************)
(* Inequality-only layout: OsqpEigenOpt(qp_problem, verbosity) and its     *)
(* initializeSolver.  Nothing in it throws.                                *)
(***************************************************************************)
initializeSolverIeqOnly(P) ==
  LET n == P.A_qp.rows
      m == P.A_eq.rows + P.A_ieq.rows
      lower_bound == Neg(P.b_eq) \o Scale(-inf, Ones(Len(P.b_ieq)))
      upper_bound == Neg(P.b_eq) \o Neg(P.b_ieq)
      d1 == setNumberOfConstraints(setNumberOfVariables(NoSolver, n), m)
      d2 == setGradient(setHessianMatrix(d1, P.A_qp), P.b_qp)
      d3 == setLinearConstraintsMatrix(d2, P.A_ieq)
      d4 == setBounds(d3, lower_bound, upper_bound)
  IN [thrown |-> FALSE, n |-> n, m |-> m, b_qp |-> <<>>,
      lcm |-> SparseMat(0, 0), lower |-> <<>>, upper |-> <<>>,
      solver |-> initSolver(clearSolver(d4))]

(***************************************************************************)
(* The partial updates and the solve, as functions of the adapter's        *)
(* fields.                                                                 *)
(***************************************************************************)
setGradientAndInitStale(s, lcm, b_qp) ==
  initSolver(clearSolver(setLinearConstraintsMatrix(s, lcm)))

setGradientAndInit(s, lcm, b_qp) ==
  initSolver(clearSolver(
    setLinearConstraintsMatrix(setGradient(s, b_qp), lcm)))

SegmentAtFront(lower, upper, b_ieq) ==
  AssignSegment(upper, 0, Len(b_ieq), Neg(b_ieq))

\* upper_bound_.segment(bound_dim - b_ieq.rows(), b_ieq.rows()) = -b_ieq
SegmentUpdate(lower, upper, b_ieq) ==
  LET bound_dim == Len(lower)
  IN AssignSegment(upper, bound_dim - Len(b_ieq), Len(b_ieq), Neg(b_ieq))

\* the segment does not lie inside upper_bound_: Eigen asserts in a debug
\* build; a release build writes out of bounds (nothing when the slice is
\* empty)
SegmentOutOfRange(lower, upper, b_ieq) ==
  \/ Len(lower) - Len(b_ieq) < 0
  \/ Len(lower) > Len(upper)

setGradientIeqConstraintAndInit(s, lcm, lower, upper, b_qp, b_ieq) ==
  initSolver(clearSolver(
    setLinearConstraintsMatrix(
      setBounds(setGradient(s, b_qp), lower,
                SegmentUpdate(lower, upper, b_ieq)), lcm)))

\* solveProblem(): the workspace keeps the solution as its iterate
solveProblem(s, status, solution) ==
  [s EXCEPT !.status = status, !.sol = solution, !.x = solution]

checkFeasibilityAlsoInaccurate(status) ==
  ~(status \in {"PRIMAL_INFEASIBLE", "PRIMAL_INFEASIBLE_INACCURATE"})

checkFeasibility(status) == ~(status = "PRIMAL_INFEASIBLE")

(***************************************************************************)
(* The adapter as a state machine.                                         *)
(***************************************************************************)
SbIdle == [pc |-> "idle"]

RoIdle == [pc |-> "idle"]

LoopIdle == [pc |-> "idle"]

NoHist == [g |-> <<>>, b |-> <<>>, slicesFull |-> TRUE, ieqUsed |-> FALSE,
           solved |-> FALSE, sol |-> <<>>, atInit |-> Data(NoSolver)]

AdapterInit ==
  /\ layout = "none"
  /\ session = "none"
  /\ qp = MkProblem(0, 0, 0, "none")
  /\ n_ = 0
  /\ m_ = 0
  /\ b_qp_ = <<>>
  /\ lower_bound_ = <<>>
  /\ upper_bound_ = <<>>
  /\ linearConstraintsMatrix_ = SparseMat(0, 0)
  /\ solver_ = NoSolver
  /\ feasible = TRUE
  /\ lastOp = "none"
  /\ calls = 0
  /\ arg = [g |-> <<>>, b |-> <<>>]
  /\ pre = Data(NoSolver)
  /\ hist = NoHist

Init ==
  /\ AdapterInit
  /\ sb = SbIdle
  /\ ro = RoIdle
  /\ loop = LoopIdle

\* the constructor ran on P with outcome r: the adapter exists unless it threw
Install(lay, P, r) ==
  /\ layout' = lay
  /\ qp' = P
  /\ lastOp' = "initialize"
  /\ IF r.thrown
     THEN /\ session' = "failed"
          /\ UNCHANGED <<n_, m_, b_qp_, lower_bound_, upper_bound_,
                         linearConstraintsMatrix_, solver_, hist>>
     ELSE /\ session' = "live"
          /\ n_' = r.n
          /\ m_' = r.m
          /\ b_qp_' = r.b_qp
          /\ lower_bound_' = r.lower
          /\ upper_bound_' = r.upper
          /\ linearConstraintsMatrix_' = r.lcm
          /\ solver_' = r.solver
          /\ hist' = [NoHist EXCEPT !.g = P.b_qp, !.b = P.b_ieq,
                                    !.atInit = Data(r.solver)]
  /\ UNCHANGED <<feasible, calls, arg, pre, sb, ro, loop>>

Initialize ==
  /\ session = "none"
  /\ \E P \in Problems : Install("boxAffine", P, initializeSolver(P))

InitializeIeqOnly ==
  /\ session = "none"
  /\ \E P \in Problems : Install("ieqOnly", P, initializeSolverIeqOnly(P))

UpdateGradient ==
  /\ session = "live"
  /\ layout = "boxAffine"
  /\ calls < MaxCalls
  /\ \E v \in UpdateSeeds :
       LET g == NewGradient(n_, v) IN
       /\ b_qp_' = g
       /\ solver_' = setGradientAndInit(solver_, linearConstraintsMatrix_, g)
       /\ arg' = [g |-> g, b |-> <<>>]
       /\ hist' = [hist EXCEPT !.g = g]
  /\ pre' = Data(solver_)
  /\ lastOp' = "updateGradient"
  /\ calls' = calls + 1
  /\ UNCHANGED <<layout, session, qp, n_, m_, lower_bound_, upper_bound_,
                 linearConstraintsMatrix_, feasible, sb, ro, loop>>

UpdateGradientAndInequalityBound ==
  /\ session = "live"
  /\ layout = "boxAffine"
  /\ calls < MaxCalls
  /\ \E v \in UpdateSeeds, k \in 0..MaxSlice :
       LET g == NewGradient(n_, v)
           b == NewIeqRhs(k, v) IN
       /\ arg' = [g |-> g, b |-> b]
       /\ b_qp_' = g
       /\ IF SegmentOutOfRange(lower_bound_, upper_bound_, b)
          THEN /\ session' \in {"aborted", "undefined"}
               /\ UNCHANGED <<upper_bound_, solver_, hist>>
          ELSE /\ session' = session
               /\ upper_bound_' = SegmentUpdate(lower_bound_, upper_bound_, b)
               /\ solver_' = setGradientIeqConstraintAndInit(
                               solver_, linearConstraintsMatrix_,
                               lower_bound_, upper_bound_, g, b)
               /\ hist' = [hist EXCEPT
                             !.g = g, !.b = b, !.ieqUsed = TRUE,
                             !.slicesFull = hist.slicesFull
                                            /\ Len(b) = Len(qp.b_ieq)]
  /\ pre' = Data(solver_)
  /\ lastOp' = "updateGradientAndInequalityBound"
  /\ calls' = calls + 1
  /\ UNCHANGED <<layout, qp, n_, m_, lower_bound_,
                 linearConstraintsMatrix_, feasible, sb, ro, loop>>

Solve ==
  /\ session = "live"
  /\ calls < MaxCalls
  /\ \E st \in Statuses, s \in Solutions(n_) :
       /\ solver_' = solveProblem(solver_, st, s)
       /\ hist' = [hist EXCEPT !.solved = TRUE, !.sol = s]
  /\ pre' = Data(solver_)
  /\ lastOp' = "solve"
  /\ calls' = calls + 1
  /\ UNCHANGED <<layout, session, qp, n_, m_, b_qp_, lower_bound_,
                 upper_bound_, linearConstraintsMatrix_, feasible, arg,
                 sb, ro, loop>>

\* called only immediately after solve
CheckFeasibility ==
  /\ session = "live"
  /\ lastOp = "solve"
  /\ feasible' = checkFeasibility(solver_.status)
  /\ lastOp' = "checkFeasibility"
  /\ UNCHANGED <<layout, session, qp, n_, m_, b_qp_, lower_bound_,
                 upper_bound_, linearConstraintsMatrix_, solver_, calls, arg,
                 pre, hist, sb, ro, loop>>

Next ==
  \/ Initialize
  \/ InitializeIeqOnly
  \/ UpdateGradient
  \/ UpdateGradientAndInequalityBound
  \/ Solve
  \/ CheckFeasibility

Spec == Init /\ [][Next]_vars

(***************************************************************************)
(* Properties of the adapter.                                              *)
(***************************************************************************)
Live == session = "live"

BoxAffine == layout = "boxAffine"

\* the problem rebuilt from scratch: the gradient and the inequality rhs
\* replaced by the most recent ones supplied
Rebuilt == [qp EXCEPT !.b_qp = hist.g, !.b_ieq = hist.b]

GradientOnlyUpdate ==
  (Live /\ BoxAffine /\ ~hist.ieqUsed)
    => /\ b_qp_ = hist.g
       /\ solver_.gradient = hist.g
       /\ solver_.hessian = hist.atInit.hessian
       /\ solver_.A = hist.atInit.A
       /\ solver_.lower = hist.atInit.lower
       /\ solver_.upper = hist.atInit.upper

GradientOnlyWitness ==
  /\ Live
  /\ BoxAffine
  /\ ~hist.ieqUsed
  /\ calls = 2
  /\ lastOp = "updateGradient"
  /\ pre.gradient # qp.b_qp
  /\ solver_.gradient # pre.gradient

\* C3 (as claimed): updateGradientAndInequalityBound with a slice of length
\* k overwrites exactly the last k entries of the upper bound with the
\* negated slice, those entries are all inequality rows, and every
\* variable-box and equality entry of the upper bound, the whole lower
\* bound, the Hessian and the constraint matrix are unchanged, whatever k.
IeqUpdateTouchesOnlyInequalityRows ==
  (Live /\ lastOp = "updateGradientAndInequalityBound")
    => LET k == Len(arg.b)
           len == Len(pre.upper)
           fixed == Len(qp.upper_bound) + Len(qp.b_eq)
       IN /\ Len(solver_.upper) = len
          /\ \A t \in 1..len :
               solver_.upper[t] = IF t > len - k THEN -arg.b[t - (len - k)]
                                  ELSE pre.upper[t]
          /\ k <= len - fixed
          /\ \A t \in 1..fixed : solver_.upper[t] = pre.upper[t]
          /\ solver_.lower = pre.lower
          /\ solver_.hessian = pre.hessian
          /\ solver_.A = pre.A

\* C4: in the box+affine layout initialize loads, for a problem with
\* consistent dimensions, the constraint matrix [Identity; A_eq; A_ieq], the
\* lower bound [lower_bound; -b_eq; -inf per inequality row] and the upper
\* bound [upper_bound; -b_eq; -b_ieq].
BoxAffineLayoutLoaded ==
  (Live /\ BoxAffine /\ ~hist.ieqUsed /\ Consistent(qp))
    => LET nb == Len(qp.upper_bound)
           ne == qp.A_eq.rows
           ni == qp.A_ieq.rows
       IN /\ solver_.A.rows = nb + ne + ni
          /\ solver_.A.cols = qp.A_qp.rows
          /\ DOMAIN solver_.A.coef = Cells(nb + ne + ni, qp.A_qp.rows)
          /\ \A p \in Cells(nb + ne + ni, qp.A_qp.rows) :
               solver_.A.coef[p] =
                 IF p[1] < nb THEN (IF p[1] = p[2] THEN 1 ELSE 0)
                 ELSE IF p[1] < nb + ne
                      THEN qp.A_eq.coef[<<p[1] - nb, p[2]>>]
                      ELSE qp.A_ieq.coef[<<p[1] - nb - ne, p[2]>>]
          /\ Len(solver_.lower) = nb + ne + ni
          /\ Len(solver_.upper) = nb + ne + ni
          /\ \A t \in 1..(nb + ne + ni) :
               /\ solver_.lower[t] =
                    IF t <= nb THEN qp.lower_bound[t]
                    ELSE IF t <= nb + ne THEN -qp.b_eq[t - nb] ELSE -inf
               /\ solver_.upper[t] =
                    IF t <= nb THEN qp.upper_bound[t]
                    ELSE IF t <= nb + ne THEN -qp.b_eq[t - nb]
                         ELSE -qp.b_ieq[t - nb - ne]

BoxAffineLayoutWitness ==
  /\ Live
  /\ BoxAffine
  /\ lastOp = "initialize"
  /\ Consistent(qp)
  /\ qp.A_qp.rows = 2
  /\ qp.A_eq.rows = 1
  /\ qp.A_ieq.rows = 2

\* C6: solve() hands back a solution vector for every loaded problem and
\* raises nothing, and isFeasible called right after it is false exactly
\* when the status of that solve is primal-infeasible.
InfeasibilityIsAnOutcome ==
  /\ (lastOp = "solve" => (Live /\ Len(solver_.sol) = n_))
  /\ (lastOp = "checkFeasibility"
        => (feasible = FALSE <=> solver_.status = "PRIMAL_INFEASIBLE"))

ContradictoryBounds(P) ==
  \E t \in 1..Len(P.lower_bound) : P.lower_bound[t] > P.upper_bound[t]

InfeasibilityWitness ==
  /\ Live
  /\ lastOp = "checkFeasibility"
  /\ ContradictoryBounds(qp)
  /\ solver_.status = "PRIMAL_INFEASIBLE"
  /\ feasible = FALSE

\* C7 (as claimed): once solve() has produced a solution s, the session
\* still holds s as its starting point after updateGradient or
\* updateGradientAndInequalityBound.
WarmStartSurvivesUpdate ==
  (Live /\ hist.solved
     /\ lastOp \in {"updateGradient", "updateGradientAndInequalityBound"})
    => (solver_.init /\ solver_.x = hist.sol)

\* C10 (as claimed): whenever initialize has not failed, the number of
\* constraints declared to the solver is the row count of the constraint
\* matrix loaded and the length of both bound vectors, in both layouts and
\* after any partial update.
LoadedDimensionsAgree ==
  Live => /\ solver_.nCons = solver_.A.rows
          /\ solver_.nCons = Len(solver_.lower)
          /\ solver_.nCons = Len(solver_.upper)

(***************************************************************************)
(* The block inserter on its own.  A target of any shape up to MaxDim is   *)
(* either fresh or has had a block covering it inserted at (0, 0); then    *)
(* one block of any shape is inserted at any offset, offsets beyond the    *)
(* target included.                                                        *)
(***************************************************************************)
Dims == 0..MaxDim

Offsets == 0..(MaxDim + 1)

\* a block with every entry stored, and one with holes
Blocks ==
  { [rows |-> r, cols |-> c,
     coef |-> [p \in Cells(r, c) |->
                 IF holes /\ (p[1] + p[2]) % 2 = 1 THEN 0
                 ELSE 1 + p[1] + 2 * p[2]]] :
      r \in Dims, c \in Dims, holes \in BOOLEAN }

Covering(r, c) ==
  [rows |-> r, cols |-> c, coef |-> [p \in Cells(r, c) |-> 9]]

BlockInit ==
  /\ AdapterInit
  /\ ro = RoIdle
  /\ loop = LoopIdle
  /\ \E r \in Dims, c \in Dims :
       sb = [pc |-> "fresh", target |-> SparseMat(r, c),
             before |-> SparseMat(r, c), block |-> SparseMat(0, 0),
             i |-> 0, j |-> 0, err |-> FALSE]

Prefill ==
  /\ sb.pc = "fresh"
  /\ LET r == setSparseBlock(sb.target,
                             Covering(sb.target.rows, sb.target.cols),
                             0, 0, "new")
     IN sb' = [sb EXCEPT !.pc = "filled", !.target = r.mat,
                         !.before = r.mat]
  /\ UNCHANGED <<advars, ro, loop>>

InsertBlock ==
  /\ sb.pc \in {"fresh", "filled"}
  /\ \E blk \in Blocks, i \in Offsets, j \in Offsets, dup \in DupOutcomes :
       LET r == setSparseBlock(sb.target, blk, i, j, dup)
       IN sb' = [pc |-> "done", target |-> r.mat, before |-> sb.target,
                 block |-> blk, i |-> i, j |-> j, err |-> r.err]
  /\ UNCHANGED <<advars, ro, loop>>

BlockNext == Prefill \/ InsertBlock

SpecBlock == BlockInit /\ [][BlockNext]_vars

InFootprint(p) ==
  /\ p[1] >= sb.i
  /\ p[1] < sb.i + sb.block.rows
  /\ p[2] >= sb.j
  /\ p[2] < sb.j + sb.block.cols

\* C5: the insertion fails exactly when the block does not fit in the rows
\* or columns that remain at the offset, and then the target is untouched;
\* when it fits nothing is raised and only entries inside the block's
\* footprint at the offset are written.
BlockOverflowExactly ==
  sb.pc = "done"
    => /\ sb.err <=> ~(/\ sb.i + sb.block.rows <= sb.before.rows
                       /\ sb.j + sb.block.cols <= sb.before.cols)
       /\ sb.err => sb.target = sb.before
       /\ sb.target.rows = sb.before.rows
       /\ sb.target.cols = sb.before.cols
       /\ DOMAIN sb.target.coef = DOMAIN sb.before.coef
       /\ \A p \in DOMAIN sb.before.coef :
            ~InFootprint(p) => sb.target.coef[p] = sb.before.coef[p]
       /\ ~sb.err =>
            \A p \in DOMAIN sb.before.coef :
              (InFootprint(p) /\ sb.before.coef[p] = 0)
                => sb.target.coef[p] =
                     sb.block.coef[<<p[1] - sb.i, p[2] - sb.j>>]

BlockOverflowWitness ==
  /\ sb.pc = "done"
  /\ sb.err
  /\ sb.i > sb.before.rows
  /\ sb.block.rows > 0
  /\ sb.before.rows > 0
  /\ sb.before.cols > 0
  /\ sb.before.coef[<<0, 0>>] # 0

(***************************************************************************)
(* The rollout.  Dense matrices are sequences of rows.  A system has       *)
(* n_x = 2 states and n_u = 1 or 2 inputs; the horizon is Horizon.         *)
(***************************************************************************)
NRows(M) == Len(M)

NCols(M) == Len(M[1])

Dot(u, v) ==
  LET sum[t \in 0..Len(u)] == IF t = 0 THEN 0 ELSE sum[t - 1] + u[t] * v[t]
  IN sum[Len(u)]

Column(M, c) == [r \in 1..NRows(M) |-> M[r][c]]

MatVec(M, v) == [r \in 1..NRows(M) |-> Dot(M[r], v)]

MatMul(X, Y) ==
  [r \in 1..NRows(X) |-> [c \in 1..NCols(Y) |-> Dot(X[r], Column(Y, c))]]

VecAdd(u, v) == [t \in 1..Len(u) |-> u[t] + v[t]]

Identity(k) == [r \in 1..k |-> [c \in 1..k |-> IF r = c THEN 1 ELSE 0]]

RECURSIVE matrixPow(_, _)
matrixPow(input_mat, power) ==
  IF power = 0 THEN Identity(NRows(input_mat))
  ELSE MatMul(input_mat, matrixPow(input_mat, power - 1))

\* A_mpc: row-block i, column-block j is A^(i-j) * B for j <= i, zero above
BuildA_mpc(A, B, N) ==
  LET nx == NRows(A)
      nu == NCols(B)
      powB == [d \in 0..(N - 1) |-> MatMul(matrixPow(A, d), B)]
  IN [rr \in 1..(N * nx) |-> [cc \in 1..(N * nu) |->
        LET i == (rr - 1) \div nx
            j == (cc - 1) \div nu
        IN IF j <= i
           THEN powB[i - j][((rr - 1) % nx) + 1][((cc - 1) % nu) + 1]
           ELSE 0]]

\* B_mpc: row-block i is A^(i+1)
BuildB_mpc(A, N) ==
  LET nx == NRows(A)
      pow == [d \in 1..N |-> matrixPow(A, d)]
  IN [rr \in 1..(N * nx) |->
        pow[((rr - 1) \div nx) + 1][((rr - 1) % nx) + 1]]

calculateXNoInitialState(A_mpc, B_mpc, x0, U_in) == MatVec(A_mpc, U_in)

\* X = A_mpc * U + B_mpc * x0
calculateX(A_mpc, B_mpc, x0, U_in) ==
  VecAdd(MatVec(A_mpc, U_in), MatVec(B_mpc, x0))

\* one step of the system: x(k+1) = A * x(k) + B * u(k)
StepSystem(A, B, x, u) == VecAdd(MatVec(A, x), MatVec(B, u))

\* u(k): the k-th input of the stacked control sequence, k from 0
InputAt(U, nu, k) == [t \in 1..nu |-> U[k * nu + t]]

SystemsA ==
  { M \in [1..2 -> [1..2 -> {0, 1}]] : M[1][2] = 1 }
    \cup { <<(<<1, 1>>), (<<-1, 1>>)>>, <<(<<0, -1>>), (<<1, 0>>)>> }

SystemsB == { <<(<<1>>), (<<2>>)>>, <<(<<1, 0>>), (<<-1, 1>>)>> }

InitialStates == { <<1, -1>>, <<0, 2>> }

ControlVals == {-1, 2}

RolloutInit ==
  /\ AdapterInit
  /\ sb = SbIdle
  /\ loop = LoopIdle
  /\ \E A \in SystemsA, B \in SystemsB, x0 \in InitialStates :
       \E U \in [1..(Horizon * NCols(B)) -> ControlVals] :
         ro = [pc |-> "new", A |-> A, B |-> B, x0 |-> x0, U |-> U,
               A_mpc |-> <<>>, B_mpc |-> <<>>, X |-> <<>>,
               k |-> 0, x |-> x0, Xsim |-> <<>>]

setupMpcDynamics ==
  /\ ro.pc = "new"
  /\ ro' = [ro EXCEPT !.pc = "built",
                      !.A_mpc = BuildA_mpc(ro.A, ro.B, Horizon),
                      !.B_mpc = BuildB_mpc(ro.A, Horizon)]
  /\ UNCHANGED <<advars, sb, loop>>

CalculateX ==
  /\ ro.pc = "built"
  /\ ro' = [ro EXCEPT !.pc = "simulate",
                      !.X = calculateX(ro.A_mpc, ro.B_mpc, ro.x0, ro.U)]
  /\ UNCHANGED <<advars, sb, loop>>

Simulate ==
  /\ ro.pc = "simulate"
  /\ ro.k < Horizon
  /\ LET xn == StepSystem(ro.A, ro.B, ro.x, InputAt(ro.U, NCols(ro.B), ro.k))
     IN ro' = [ro EXCEPT !.k = ro.k + 1, !.x = xn, !.Xsim = ro.Xsim \o xn,
                         !.pc = IF ro.k + 1 = Horizon THEN "done"
                                ELSE "simulate"]
  /\ UNCHANGED <<advars, sb, loop>>

RolloutNext == setupMpcDynamics \/ CalculateX \/ Simulate

SpecRollout == RolloutInit /\ [][RolloutNext]_vars

\* C9: calculateX(U) = A_mpc * U + B_mpc * x0 is the stacked sequence
\* x(1), ..., x(N) of the step-by-step simulation x(k+1) = A x(k) + B u(k)
\* from x0.
RolloutMatchesSimulation ==
  ro.pc = "done" => (Len(ro.X) = Horizon * 2 /\ ro.X = ro.Xsim)

RolloutWitness ==
  /\ ro.pc = "done"
  /\ NCols(ro.B) = 2
  /\ ro.A = <<(<<1, 1>>), (<<-1, 1>>)>>
  /\ ro.X # MatVec(ro.A_mpc, ro.U)
  /\ \E t \in 1..Len(ro.X) : ro.X[t] > 2

(***************************************************************************)
(* The control loop of the example driver, and the controller's state      *)
(* machine Uninitialized -> Initialized -> Ready.  Solutions are opaque    *)
(* tokens; x0 is the term calculateX(U_sol).segment(0, 2).                 *)
(***************************************************************************)
n_simulate_steps == 30

horizon == 100

LoopSolutions == {"U_a", "U_b"}

\* MPC::initializeSolver
MpcInitializeSolver(ctrl) == "Initialized"

\* MPC::updateSolver: on a controller without a solver session the call
\* dereferences an empty osqp_eigen_opt_
MpcUpdateSolver(ctrl) ==
  IF ctrl \in {"Initialized", "Ready"} THEN "Ready" ELSE "undefined"

\* MPC::solve is const: the controller's state is as before
MpcSolve(ctrl) ==
  IF ctrl \in {"Initialized", "Ready"} THEN ctrl ELSE "undefined"

FirstIterationOffByOne(i) == i = 1

\* if(i == 0)
FirstIteration(i) == i = 0

\* x0 = mpc.calculateX(U_sol).segment(0, 2)
NextInitialState(U_sol) == [calculateX |-> U_sol, start |-> 0, len |-> 2]

LoopInit ==
  /\ AdapterInit
  /\ sb = SbIdle
  /\ ro = RoIdle
  /\ loop = [pc |-> "branch", i |-> 0, ctrl |-> "Uninitialized",
             U_sol |-> "unset", Y_d |-> [start |-> 0, len |-> horizon],
             x0 |-> "x0", log |-> <<>>,
             solved |-> [step |-> -1, U |-> "unset"]]

\* the body of the for loop up to the solve: initializeSolver on the first
\* iteration, updateSolver(Y_d, x0) on every other
Branch ==
  /\ loop.pc = "branch"
  /\ loop.i < n_simulate_steps
  /\ IF FirstIteration(loop.i)
     THEN loop' = [loop EXCEPT
            !.pc = "solve",
            !.ctrl = MpcInitializeSolver(loop.ctrl),
            !.log = <<[op |-> "initializeSolver", at |-> loop.ctrl,
                       x0 |-> loop.x0]>>]
     ELSE LET x0 == NextInitialState(loop.U_sol)
          IN loop' = [loop EXCEPT
               !.pc = "solve",
               !.Y_d = [start |-> loop.i, len |-> horizon],
               !.x0 = x0,
               !.ctrl = MpcUpdateSolver(loop.ctrl),
               !.log = <<[op |-> "updateSolver", at |-> loop.ctrl,
                          x0 |-> x0]>>]
  /\ UNCHANGED <<advars, sb, ro>>

\* U_sol = mpc.solve()
LoopSolve ==
  /\ loop.pc = "solve"
  /\ \E s \in LoopSolutions :
       loop' = [loop EXCEPT
         !.pc = "plot",
         !.U_sol = s,
         !.ctrl = MpcSolve(loop.ctrl),
         !.log = Append(loop.log, [op |-> "solve", at |-> loop.ctrl,
                                   x0 |-> loop.x0]),
         !.solved = [step |-> loop.i, U |-> s]]
  /\ UNCHANGED <<advars, sb, ro>>

\* the plots, then i++
Plot ==
  /\ loop.pc = "plot"
  /\ loop' = [loop EXCEPT !.pc = "branch", !.i = loop.i + 1]
  /\ UNCHANGED <<advars, sb, ro>>

\* return 0
Return ==
  /\ loop.pc = "branch"
  /\ loop.i >= n_simulate_steps
  /\ loop' = [loop EXCEPT !.pc = "done"]
  /\ UNCHANGED <<advars, sb, ro>>

LoopNext == Branch \/ LoopSolve \/ Plot \/ Return

SpecLoop == LoopInit /\ [][LoopNext]_vars

LogOps == [k \in 1..Len(loop.log) |-> loop.log[k].op]

\* C8: initializeSolver comes before any updateSolver or solve, updateSolver
\* and solve are only invoked in Initialized or Ready, Ready is re-entrant;
\* step 0 does initializeSolver then solve, every later step does
\* updateSolver(Y_d, x0) then solve with x0 taken from the previous step's
\* solution.
ControlLoopProtocol ==
  /\ loop.ctrl \in {"Uninitialized", "Initialized", "Ready"}
  /\ \A k \in 1..Len(loop.log) :
       /\ loop.log[k].op = "initializeSolver"
            => loop.log[k].at = "Uninitialized"
       /\ loop.log[k].op \in {"updateSolver", "solve"}
            => loop.log[k].at \in {"Initialized", "Ready"}
  /\ (loop.pc = "solve" /\ loop.i = 0) => LogOps = <<"initializeSolver">>
  /\ (loop.pc = "plot" /\ loop.i = 0)
       => LogOps = <<"initializeSolver", "solve">>
  /\ (loop.pc = "solve" /\ loop.i > 0)
       => /\ LogOps = <<"updateSolver">>
          /\ loop.solved.step = loop.i - 1
          /\ loop.log[1].x0 =
               [calculateX |-> loop.solved.U, start |-> 0, len |-> 2]
          /\ loop.Y_d.start = loop.i
  /\ (loop.pc = "plot" /\ loop.i > 0) => LogOps = <<"updateSolver", "solve">>
  /\ (loop.i > 1 /\ loop.pc \in {"solve", "plot"}) => loop.ctrl = "Ready"
  /\ (loop.i = 0 /\ loop.pc = "plot") => loop.ctrl = "Initialized"

ControlLoopWitness ==
  /\ loop.pc = "plot"
  /\ loop.i = 2
  /\ loop.ctrl = "Ready"
  /\ loop.log[1].at = "Ready"
  /\ loop.log[1].x0.calculateX = "U_b"
  /\ loop.U_sol = "U_a"

====
